---- MODULE Spec2Model ----
(***************************************************************************)
(* Model of the vector-store manager of LocalAIAgentWithRAG:               *)
(*   src/vector.py  VectorDBManager (loader, collection store)             *)
(*   src/main.py    rebuild_vector_db, query_restaurant                    *)
(*                                                                         *)
(* A file path is a record [abs, stem, ext]; Path.resolve() makes it       *)
(* absolute.  A topic is the sequence of path components of its name       *)
(* (<<>> is the empty name), so that os.path.join(db_root, topic) is a     *)
(* concatenation.  A Chroma collection is a set of documents keyed by id.  *)
(***************************************************************************)
EXTENDS Integers, Sequences, FiniteSets, TLC

VARIABLES
    disk,             \* source files: resolved file name -> shape of its content
    dirs,             \* directories that exist under the working directory
    content,          \* topic -> documents stored in the topic's collection
    current_sources,  \* main.py global
    last,             \* observation of the last completed call
    rebuilt,          \* history: topics rebuild was ever called on
    addCalls,         \* history: topic -> number of add_documents calls
    loaded,           \* observation of the last direct _load_document call
    pc,               \* concurrent callers: position inside rebuild
    loc               \* concurrent callers: locals of rebuild

vars == <<disk, dirs, content, current_sources, last, rebuilt, addCalls, loaded, pc, loc>>

-----------------------------------------------------------------------------
(* Bounds *)

MaxSources == 2   \* longest source list handed to rebuild
MaxPages == 2     \* most pages of a PDF file
MaxItems == 2     \* most elements of a JSON root list

-----------------------------------------------------------------------------
(* Program constants *)

TopK == 5

db_root == <<"vector_dbs">>

current_topic == <<"restaurant_reviews">>

StatusOk == "Vector database rebuilt successfully!"

StatusError == "Error rebuilding vector database"

-----------------------------------------------------------------------------
(* Source files *)

FileName(stem, ext) == [stem |-> stem, ext |-> ext]

RelPath(stem, ext) == [abs |-> FALSE, stem |-> stem, ext |-> ext]

AbsPath(stem, ext) == [abs |-> TRUE, stem |-> stem, ext |-> ext]

\* Path(file_path).resolve(): a relative path is made absolute against the
\* working directory, an absolute one is kept.
Resolve(path) == [path EXCEPT !.abs = TRUE]

NameOf(path) == FileName(path.stem, path.ext)

\* What a file can hold, by extension.  "missing": no such file; "corrupt":
\* the reader or parser raises.
ShapesFor(ext) ==
    {[kind |-> "missing", n |-> 0]} \cup
    CASE ext = ".pdf"  -> {[kind |-> "corrupt", n |-> 0]}
                          \cup {[kind |-> "pages", n |-> k] : k \in 0..MaxPages}
      [] ext = ".json" -> {[kind |-> "corrupt", n |-> 0], [kind |-> "dict", n |-> 1],
                           [kind |-> "scalar", n |-> 0]}
                          \cup {[kind |-> "list", n |-> k] : k \in 0..MaxItems}
      [] ext = ".txt"  -> {[kind |-> "corrupt", n |-> 0], [kind |-> "text", n |-> 1]}
      [] OTHER         -> {[kind |-> "other", n |-> 0]}

Exists(path) == disk[NameOf(Resolve(path))].kind # "missing"

WellFormed(path) == disk[NameOf(Resolve(path))].kind \notin {"missing", "corrupt"}

-----------------------------------------------------------------------------
(* Document loader *)

Ok(docs) == [ok |-> TRUE, docs |-> docs, err |-> "none"]

Raise(err) == [ok |-> FALSE, docs |-> <<>>, err |-> err]

LoadPdf(file_path) ==
    LET f == disk[NameOf(file_path)] IN
    IF f.kind # "pages" THEN Raise("LoadFailure")
    ELSE Ok([i \in 1..f.n |->
             [page_content |-> <<NameOf(file_path), i - 1>>,
              metadata |-> [page |-> i, source |-> file_path, type |-> "pdf"],
              id |-> <<"pdf", i - 1>>]])

\* LoadJson without the branch for a mapping at the root.
LoadJson_NoMapping(file_path) ==
    LET f == disk[NameOf(file_path)] IN
    IF f.kind = "list"
    THEN Ok([i \in 1..f.n |->
             [page_content |-> <<NameOf(file_path), i - 1>>,
              metadata |-> [source |-> file_path, type |-> "json_list_item"],
              id |-> <<"json", i - 1>>]])
    ELSE IF f.kind \in {"dict", "scalar"} THEN Ok(<<>>)
    ELSE Raise("LoadFailure")

LoadJson(file_path) ==
    LET f == disk[NameOf(file_path)] IN
    IF f.kind = "list"
    THEN Ok([i \in 1..f.n |->
             [page_content |-> <<NameOf(file_path), i - 1>>,
              metadata |-> [source |-> file_path, type |-> "json_list_item"],
              id |-> <<"json", i - 1>>]])
    ELSE IF f.kind = "dict"
    THEN Ok(<<[page_content |-> <<NameOf(file_path), 0>>,
               metadata |-> [source |-> file_path, type |-> "json_document"],
               id |-> <<"json", 0>>]>>)
    ELSE IF f.kind = "scalar" THEN Ok(<<>>)
    ELSE Raise("LoadFailure")

LoadText(file_path) ==
    LET f == disk[NameOf(file_path)] IN
    IF f.kind # "text" THEN Raise("LoadFailure")
    ELSE Ok(<<[page_content |-> <<NameOf(file_path), 0>>,
               metadata |-> [source |-> file_path, type |-> "text"],
               id |-> <<"text", 0>>]>>)

LoadDocument(path) ==
    LET file_path == Resolve(path) IN
    IF ~Exists(file_path) THEN Raise("FileNotFound")
    ELSE IF file_path.ext = ".pdf" THEN LoadPdf(file_path)
    ELSE IF file_path.ext = ".json" THEN LoadJson(file_path)
    ELSE IF file_path.ext = ".txt" THEN LoadText(file_path)
    ELSE Raise("UnsupportedFormat")

-----------------------------------------------------------------------------
(* Collection store *)

Topics == {<<>>, <<"restaurant_reviews">>, <<"menus">>}

\* os.path.join(self.db_root, topic)
CollectionPath(topic) == db_root \o topic

\* os.path.exists(collection_path)
PathExists(path) == path \in dirs

\* The directories a persistent Chroma client leaves behind once it is opened
\* on persist_directory: the directory and its parents.
Makedirs(path) == {SubSeq(path, 1, k) : k \in 1..Len(path)}

\* StoreOpen of a store that is not persisted under persist_directory.
StoreOpen_NotPersisted(path) == dirs

\* Chroma(collection_name=topic, persist_directory=collection_path, ...):
\* the directories after the store is opened.
StoreOpen(path) == dirs \cup Makedirs(path)

Ids(documents) == {documents[i].id : i \in 1..Len(documents)}

DocSet(documents) == {documents[i] : i \in 1..Len(documents)}

HasDuplicateIds(documents) == Cardinality(Ids(documents)) < Len(documents)

\* vector_store.add_documents(documents): the Documents carry ids, which
\* become the keys of one Chroma upsert of the whole batch.  Chroma validates
\* the ids first and raises DuplicateIDError when the batch repeats one, so
\* nothing of such a batch is stored; otherwise an entry with a known id is
\* replaced and the others are added.
AddDocuments(coll, documents) ==
    IF HasDuplicateIds(documents)
    THEN [raised |-> TRUE, coll |-> coll]
    ELSE [raised |-> FALSE,
          coll |-> {d \in coll : d.id \notin Ids(documents)} \cup DocSet(documents)]

\* The loop over the sources of create_or_update_collection: a source whose
\* load raises is skipped, the others extend the batch in order.
RECURSIVE LoadAll(_)
LoadAll(sources) ==
    IF sources = <<>> THEN <<>>
    ELSE LET r == LoadDocument(Head(sources)) IN
         (IF r.ok THEN r.docs ELSE <<>>) \o LoadAll(Tail(sources))

\* ShouldIngest without the is_new test.
ShouldIngest_AnyTime(is_new, documents) == documents # <<>>

\* if is_new and documents:
ShouldIngest(is_new, documents) == is_new /\ documents # <<>>

\* VectorDBManager.create_or_update_collection, as the effect of one whole
\* call on the directories and on the topic's collection.
CreateOrUpdateCollection(topic, sources) ==
    LET collection_path == CollectionPath(topic)
        is_new == ~PathExists(collection_path)
        documents == LoadAll(sources)
        opened == StoreOpen(collection_path)
        ingest == ShouldIngest(is_new, documents)
        add == IF ingest THEN AddDocuments(content[topic], documents)
               ELSE [raised |-> FALSE, coll |-> content[topic]]
    IN [is_new |-> is_new, documents |-> documents, dirs |-> opened,
        ingest |-> ingest, raised |-> add.raised, coll |-> add.coll]

\* VectorDBManager.get_retriever
GetRetrieverOutcome(topic) ==
    IF ~PathExists(CollectionPath(topic)) THEN "CollectionNotFound" ELSE "handle"

-----------------------------------------------------------------------------
(* Inputs *)

Files ==
    {FileName("a", ".txt"), FileName("b", ".txt"), FileName("list", ".json"),
     FileName("null", ".json"), FileName("menu", ".pdf"), FileName("notes", ".csv")}

\* The files of the sequential and concurrent specifications.
DefaultDisk ==
    [f \in Files |->
        CASE f = FileName("a", ".txt")     -> [kind |-> "text", n |-> 1]
          [] f = FileName("b", ".txt")     -> [kind |-> "text", n |-> 1]
          [] f = FileName("list", ".json") -> [kind |-> "list", n |-> 2]
          [] f = FileName("null", ".json") -> [kind |-> "scalar", n |-> 0]
          [] f = FileName("menu", ".pdf")  -> [kind |-> "missing", n |-> 0]
          [] OTHER                         -> [kind |-> "other", n |-> 0]]

SourcePaths ==
    {RelPath("a", ".txt"), AbsPath("b", ".txt"), RelPath("list", ".json"),
     AbsPath("null", ".json"), AbsPath("menu", ".pdf"), RelPath("notes", ".csv")}

SourceLists == UNION {[1..n -> SourcePaths] : n \in 0..MaxSources}

Questions == {"", "Is the pizza good?"}

NoCall ==
    [op |-> "none", topic |-> <<>>, sources |-> <<>>, is_new |-> FALSE,
     documents |-> <<>>, ingest |-> FALSE, before |-> {}, status |-> "none", hits |-> 0]

NoLoad == [path |-> RelPath("a", ".txt"), called |-> FALSE, result |-> Raise("none")]

Callers == {"c1", "c2"}

NoLocals == [sources |-> <<>>, is_new |-> FALSE, documents |-> <<>>, ingest |-> FALSE,
             inserted |-> FALSE, before |-> {}, status |-> "none"]

-----------------------------------------------------------------------------
(* Sequential operations: one call at a time, each call a step *)

Init ==
    /\ disk = DefaultDisk
    /\ dirs = {db_root}
    /\ content = [t \in Topics |-> {}]
    /\ current_sources = <<>>
    /\ last = NoCall
    /\ rebuilt = {}
    /\ addCalls = [t \in Topics |-> 0]
    /\ loaded = NoLoad
    /\ pc = [c \in Callers |-> "idle"]
    /\ loc = [c \in Callers |-> NoLocals]

\* RebuildStatus with the exception swallowed.
RebuildStatus_Swallowed(raised) == StatusOk

\* return "Vector database rebuilt successfully!" / except Exception
RebuildStatus(raised) == IF raised THEN StatusError ELSE StatusOk

\* RememberSources with the assignment moved after the manager call.
RememberSources_OnSuccess(old, sources, raised) == IF raised THEN old ELSE sources

\* current_sources = sources, the first statement of the try block
RememberSources(old, sources, raised) == sources

\* main.rebuild_vector_db
RebuildVectorDb(sources) ==
    \E r \in {CreateOrUpdateCollection(current_topic, sources)} :
    /\ current_sources' = RememberSources(current_sources, sources, r.raised)
    /\ dirs' = r.dirs
    /\ content' = [content EXCEPT ![current_topic] = r.coll]
    /\ rebuilt' = rebuilt \cup {current_topic}
    /\ addCalls' = [addCalls EXCEPT ![current_topic] = @ + (IF r.ingest THEN 1 ELSE 0)]
    /\ last' = [op |-> "rebuild", topic |-> current_topic, sources |-> sources,
                is_new |-> r.is_new, documents |-> r.documents, ingest |-> r.ingest,
                before |-> content[current_topic],
                status |-> RebuildStatus(r.raised), hits |-> 0]
    /\ UNCHANGED <<disk, loaded, pc, loc>>

Min(a, b) == IF a < b THEN a ELSE b

\* VectorDBManager.get_retriever, called on any topic
GetRetriever(topic) ==
    /\ last' = [NoCall EXCEPT !.op = "get_retriever", !.topic = topic,
                              !.status = GetRetrieverOutcome(topic)]
    /\ dirs' = IF GetRetrieverOutcome(topic) = "handle"
               THEN StoreOpen(CollectionPath(topic)) ELSE dirs
    /\ UNCHANGED <<disk, content, current_sources, rebuilt, addCalls, loaded, pc, loc>>

\* main.query_restaurant
QueryRestaurant(question) ==
    /\ last' =
         IF question = ""
         THEN [NoCall EXCEPT !.op = "query", !.status = "Please enter a question"]
         ELSE IF GetRetrieverOutcome(current_topic) # "handle"
         THEN [NoCall EXCEPT !.op = "query", !.topic = current_topic,
                             !.status = "Error processing query"]
         ELSE [NoCall EXCEPT !.op = "query", !.topic = current_topic,
                             !.sources = current_sources, !.status = "answer",
                             !.hits = Min(TopK, Cardinality(content[current_topic]))]
    /\ UNCHANGED <<disk, dirs, content, current_sources, rebuilt, addCalls, loaded, pc, loc>>

Next ==
    \/ \E sources \in SourceLists : RebuildVectorDb(sources)
    \/ \E topic \in Topics : GetRetriever(topic)
    \/ \E question \in Questions : QueryRestaurant(question)

Spec == Init /\ [][Next]_vars

-----------------------------------------------------------------------------
(* The loader alone, on every content the files can have *)

Disks ==
    {[f \in Files |->
        CASE f = FileName("a", ".txt")     -> ta
          [] f = FileName("b", ".txt")     -> tb
          [] f = FileName("list", ".json") -> ja
          [] f = FileName("null", ".json") -> jb
          [] f = FileName("menu", ".pdf")  -> pa
          [] OTHER                         -> ca] :
     ta \in ShapesFor(".txt"), tb \in {[kind |-> "text", n |-> 1]},
     ja \in ShapesFor(".json"), jb \in {[kind |-> "scalar", n |-> 0]},
     pa \in ShapesFor(".pdf"), ca \in ShapesFor(".csv")}

LoadPaths == {RelPath(f.stem, f.ext) : f \in Files} \cup {AbsPath(f.stem, f.ext) : f \in Files}

InitLoad ==
    /\ disk \in Disks
    /\ dirs = {db_root}
    /\ content = [t \in Topics |-> {}]
    /\ current_sources = <<>>
    /\ last = NoCall
    /\ rebuilt = {}
    /\ addCalls = [t \in Topics |-> 0]
    /\ loaded = NoLoad
    /\ pc = [c \in Callers |-> "idle"]
    /\ loc = [c \in Callers |-> NoLocals]

\* VectorDBManager._load_document, called on one path
LoadDocumentCall(path) ==
    /\ loaded' = [path |-> path, called |-> TRUE, result |-> LoadDocument(path)]
    /\ UNCHANGED <<disk, dirs, content, current_sources, last, rebuilt, addCalls, pc, loc>>

NextLoad == \E path \in LoadPaths : LoadDocumentCall(path)

SpecLoad == InitLoad /\ [][NextLoad]_vars

-----------------------------------------------------------------------------
(* Concurrent rebuild calls: the statements of rebuild_vector_db and of     *)
(* create_or_update_collection as separate steps of each caller             *)

ConcSourceLists ==
    {<<RelPath("a", ".txt")>>, <<RelPath("list", ".json")>>, <<AbsPath("menu", ".pdf")>>,
     <<RelPath("a", ".txt"), AbsPath("b", ".txt")>>}

\* current_sources = sources; is_new = not os.path.exists(collection_path)
Begin(c, sources) ==
    /\ pc[c] = "idle"
    /\ current_sources' = sources
    /\ loc' = [loc EXCEPT ![c] = [NoLocals EXCEPT
                   !.sources = sources,
                   !.is_new = ~PathExists(CollectionPath(current_topic))]]
    /\ pc' = [pc EXCEPT ![c] = "load"]
    /\ rebuilt' = rebuilt \cup {current_topic}
    /\ UNCHANGED <<disk, dirs, content, last, addCalls, loaded>>

\* the loop over the sources
LoadSources(c) ==
    /\ pc[c] = "load"
    /\ loc' = [loc EXCEPT ![c].documents = LoadAll(loc[c].sources)]
    /\ pc' = [pc EXCEPT ![c] = "open"]
    /\ UNCHANGED <<disk, dirs, content, current_sources, last, rebuilt, addCalls, loaded>>

\* vector_store = Chroma(...)
OpenStore(c) ==
    /\ pc[c] = "open"
    /\ dirs' = StoreOpen(CollectionPath(current_topic))
    /\ pc' = [pc EXCEPT ![c] = "add"]
    /\ UNCHANGED <<disk, content, current_sources, last, rebuilt, addCalls, loaded, loc>>

\* if is_new and documents: vector_store.add_documents(documents)
Ingest(c) ==
    /\ pc[c] = "add"
    /\ \E ingest \in {ShouldIngest(loc[c].is_new, loc[c].documents)} :
       \E add \in {IF ingest THEN AddDocuments(content[current_topic], loc[c].documents)
                    ELSE [raised |-> FALSE, coll |-> content[current_topic]]} :
          /\ content' = [content EXCEPT ![current_topic] = add.coll]
          /\ addCalls' = [addCalls EXCEPT ![current_topic] = @ + (IF ingest THEN 1 ELSE 0)]
          /\ loc' = [loc EXCEPT ![c].inserted = ingest /\ ~add.raised,
                                ![c].ingest = ingest,
                                ![c].before = content[current_topic],
                                ![c].status = RebuildStatus(add.raised)]
    /\ pc' = [pc EXCEPT ![c] = "return"]
    /\ UNCHANGED <<disk, dirs, current_sources, last, rebuilt, loaded>>

\* return of rebuild_vector_db
Return(c) ==
    /\ pc[c] = "return"
    /\ last' = [op |-> "rebuild", topic |-> current_topic, sources |-> loc[c].sources,
                is_new |-> loc[c].is_new, documents |-> loc[c].documents,
                ingest |-> loc[c].ingest, before |-> loc[c].before,
                status |-> loc[c].status, hits |-> 0]
    /\ loc' = [loc EXCEPT ![c] = NoLocals]
    /\ pc' = [pc EXCEPT ![c] = "idle"]
    /\ UNCHANGED <<disk, dirs, content, current_sources, rebuilt, addCalls, loaded>>

NextConc ==
    \E c \in Callers :
        \/ \E sources \in ConcSourceLists : Begin(c, sources)
        \/ LoadSources(c)
        \/ OpenStore(c)
        \/ Ingest(c)
        \/ Return(c)

SpecConc == Init /\ [][NextConc]_vars

-----------------------------------------------------------------------------
(* Properties *)

LastRebuild == last.op = "rebuild"

LastTopicPresent == PathExists(CollectionPath(last.topic))

SomeSourceLoaded(sources) == \E i \in 1..Len(sources) : LoadDocument(sources[i]).ok

\* The documents of the sources that load, source by source from the left.
RECURSIVE LoadedUpTo(_, _)
LoadedUpTo(sources, k) ==
    IF k = 0 THEN <<>>
    ELSE LoadedUpTo(sources, k - 1)
         \o (IF LoadDocument(sources[k]).ok THEN LoadDocument(sources[k]).docs ELSE <<>>)

\* C1: a rebuild of an absent topic creates the collection and ingests the
\* documents loaded from its sources; a rebuild of a present topic inserts
\* nothing, the content after it is the content before it.
C1_RebuildIdempotent ==
    LastRebuild =>
        IF last.is_new
        THEN /\ LastTopicPresent
             /\ content[last.topic] = DocSet(LoadedUpTo(last.sources, Len(last.sources)))
        ELSE content[last.topic] = last.before

\* C2: in a rebuild of an absent topic the batch handed to ingestion is the
\* concatenation, in source order, of the documents of the sources that
\* loaded, and the rebuild reports success when at least one source loaded.
C2_SourceFailureTolerated ==
    (LastRebuild /\ last.is_new) =>
        /\ last.documents = LoadedUpTo(last.sources, Len(last.sources))
        /\ SomeSourceLoaded(last.sources) => last.status = StatusOk

\* C3: get_retriever on a topic rebuild was never called on fails with
\* CollectionNotFound.
C3_NeverRebuiltNotFound ==
    (last.op = "get_retriever" /\ last.topic \notin rebuilt) =>
        last.status = "CollectionNotFound"

\* C4: a rebuild of an absent topic whose only source does not exist does
\* not report success.
C4_OnlySourceMissingFails ==
    (LastRebuild /\ last.is_new /\ Len(last.sources) = 1 /\ ~Exists(last.sources[1])) =>
        last.status # StatusOk

\* C5: no two concurrent rebuild calls both observe the topic absent and
\* both insert their documents.
C5_RebuildMutualExclusion ==
    \A c1, c2 \in Callers :
        c1 # c2 => ~(/\ loc[c1].is_new /\ loc[c1].inserted
                     /\ loc[c2].is_new /\ loc[c2].inserted)

\* C6 as stated: a topic becomes present only through a rebuild, and a
\* rebuild of an absent topic in which no source yields a document leaves
\* the topic absent.
C6_EmptyRebuildLeavesAbsent ==
    /\ \A t \in Topics :
          (PathExists(CollectionPath(t)) /\ CollectionPath(t) # db_root) => t \in rebuilt
    /\ (LastRebuild /\ last.is_new /\ last.documents = <<>>) => ~LastTopicPresent

\* C6 amended: a topic becomes present only through a rebuild, and every
\* rebuild leaves its topic present, so that get_retriever succeeds on it;
\* after a rebuild of an absent topic in which no source yields a document
\* the topic is present and its collection is empty.
C6_RebuildAlwaysCreates ==
    /\ \A t \in Topics :
          (PathExists(CollectionPath(t)) /\ CollectionPath(t) # db_root) => t \in rebuilt
    /\ LastRebuild => (LastTopicPresent /\ GetRetrieverOutcome(last.topic) = "handle")
    /\ (LastRebuild /\ last.is_new /\ last.documents = <<>>) => content[last.topic] = {}

C6_Witness ==
    /\ LastRebuild /\ last.is_new /\ last.documents = <<>> /\ last.sources # <<>>
    /\ LastTopicPresent /\ content[last.topic] = {}

\* C7: after a rebuild of an absent topic either the rebuild reports failure
\* or every document of the batch is stored, one entry for each document.
C7_AtomicIngestion ==
    (LastRebuild /\ last.is_new) =>
        \/ last.status = StatusError
        \/ /\ last.status = StatusOk
           /\ content[last.topic] = DocSet(last.documents)
           /\ Cardinality(content[last.topic]) = Len(last.documents)

C7_Witness ==
    /\ LastRebuild /\ last.is_new /\ last.status = StatusOk
    /\ Len(last.documents) = 3
    /\ Cardinality(content[last.topic]) = 3
    /\ \E i, j \in 1..3 : last.documents[i].metadata.source # last.documents[j].metadata.source

\* C8: after every rebuild call, whatever its outcome, current_sources is
\* the source list that call was given.
C8_SourcesRemembered == LastRebuild => current_sources = last.sources

C8_Witness ==
    /\ LastRebuild /\ last.status = StatusError /\ last.sources # <<>>
    /\ current_sources = last.sources
    /\ content[last.topic] # DocSet(LoadAll(current_sources))

SupportedExtensions == {".pdf", ".json", ".txt"}

LoadedWellFormed ==
    /\ loaded.called
    /\ loaded.path.ext \in SupportedExtensions
    /\ WellFormed(loaded.path)

LoadedDocs == loaded.result.docs

\* C9 as stated: load on a well-formed existing file of a supported
\* extension returns a non-empty sequence of Documents whose metadata.source
\* is the path that was passed in.
C9_LoadNonEmptySourceIsInput ==
    LoadedWellFormed =>
        /\ loaded.result.ok
        /\ Len(LoadedDocs) >= 1
        /\ \A i \in 1..Len(LoadedDocs) : LoadedDocs[i].metadata.source = loaded.path

\* C9 amended: load on a well-formed existing file of a supported extension
\* succeeds and every returned Document's metadata.source is the absolute
\* form of the path that was passed in; the sequence is empty exactly for a
\* JSON root that is neither a list nor a mapping, for an empty JSON list
\* and for a PDF without pages.
C9_LoadSourceIsResolvedPath ==
    LoadedWellFormed =>
        LET f == disk[NameOf(loaded.path)] IN
        /\ loaded.result.ok
        /\ \A i \in 1..Len(LoadedDocs) :
              /\ LoadedDocs[i].metadata.source.abs
              /\ NameOf(LoadedDocs[i].metadata.source) = NameOf(loaded.path)
        /\ Len(LoadedDocs) = 0 <=> (f.kind = "scalar" \/ (f.kind \in {"list", "pages"} /\ f.n = 0))

C9_Witness ==
    /\ LoadedWellFormed
    /\ ~loaded.path.abs
    /\ loaded.path.ext = ".json"
    /\ Len(LoadedDocs) >= 2
    /\ LoadedDocs[1].metadata.source # loaded.path

\* C10: add_documents is called at most once for a topic; every rebuild
\* leaves its topic present; a rebuild that finds its topic present ingests
\* nothing and leaves the content as it was.
C10_InsertAtMostOnce ==
    /\ \A t \in Topics : addCalls[t] <= 1
    /\ \A t \in rebuilt : PathExists(CollectionPath(t))
    /\ (LastRebuild /\ ~last.is_new) => (~last.ingest /\ content[last.topic] = last.before)

C10_Witness ==
    /\ LastRebuild /\ ~last.is_new /\ last.documents # <<>> /\ ~HasDuplicateIds(last.documents)
    /\ addCalls[last.topic] = 0
    /\ content[last.topic] = {}

====
